---- MODULE Spec2Model ----
(***************************************************************************)
(* State-machine model of the order / cart engine of E-Cart-Backend:       *)
(* the Express controllers (orderController, cartController), the Mongoose *)
(* models they drive (Order, Cart, Product) and the document store behind  *)
(* them.  One HTTP request is one process slot; every `await` on the store *)
(* is a step boundary, so requests in different slots interleave exactly   *)
(* where the Node event loop lets them.                                    *)
(*                                                                         *)
(* Money is held in integer cents (10.00 is 1000).  An optional JSON field *)
(* is <<>> when absent and <<v>> when present.                             *)
(*                                                                         *)
(* Mongoose behaviour the handlers rely on is modelled as the library      *)
(* implements it (Mongoose 6, the version whose API the code uses):        *)
(*   - save() validates the document BEFORE any schema.pre('save') hook;   *)
(*   - a path holding its schema default is not isModified();              *)
(*   - assigning a path its current value does not mark it modified;       *)
(*   - fields that are not schema paths are dropped (strict mode);         *)
(*   - array.unshift() / array = [...] are saved as a $set of the whole    *)
(*     array guarded by the version key, array.push() as a $push that      *)
(*     only increments the version key;                                    *)
(*   - toString() of a populated reference is not the id string.           *)
(***************************************************************************)
EXTENDS Integers, Sequences, FiniteSets, TLC

(* ---------------------------------------------------------------------- *)
(* Bounds of the model                                                     *)
(* ---------------------------------------------------------------------- *)
MaxQty == 2
MaxStock == 2
MaxReqs == 3

(* ---------------------------------------------------------------------- *)
(* Program constants (amounts in cents)                                    *)
(* ---------------------------------------------------------------------- *)
TaxRatePercent == 15
FreeShippingAbove == 10000
FlatShipping == 1000
MaxProductStock == 10000

(* ---------------------------------------------------------------------- *)
(* Universe                                                                *)
(* ---------------------------------------------------------------------- *)
\* "X" is a well-formed id that resolves to no product document.
ProductIds == {"A", "B", "X"}
Users == {"u1", "u2", "ad"}
Role(u) == IF u = "ad" THEN "admin" ELSE "user"
Procs == {"r1", "r2"}

PriceVals == {1000, 6000}
Absent == <<>>
Some(x) == <<x>>
Opt(S) == {Absent} \cup {Some(x) : x \in S}

\* JavaScript truthiness of an optional number: undefined and 0 are falsy.
Truthy(o) == o # Absent /\ o[1] # 0

OrderStatusEnum == {"Processing", "Shipped", "Delivered", "Cancelled", "Returned"}
TrackingStatusEnum == OrderStatusEnum \cup {"Order Placed", "In Transit", "Out for Delivery"}

\* Documents of the three collections.  hasImage: the product has at least
\* one image, so images[0].url is a non-empty string.
Product(stock, price) ==
  [exists |-> TRUE, stock |-> stock, price |-> price, hasImage |-> TRUE]
NoProduct == [exists |-> FALSE, stock |-> 0, price |-> 0, hasImage |-> FALSE]
CartItem(pid, price, qty) == [product |-> pid, price |-> price, quantity |-> qty]
Cart(items) == [exists |-> TRUE, items |-> items, v |-> 0]
NoCart == [exists |-> FALSE, items |-> <<>>, v |-> 0]

VARIABLES products, carts, orders, rq, pre, nreq

vars == <<products, carts, orders, rq, pre, nreq>>
db == <<products, carts, orders>>

(* ---------------------------------------------------------------------- *)
(* Requests                                                                *)
(* ---------------------------------------------------------------------- *)
NoRes == [code |-> 0, err |-> "-"]
Res(code, err) == [code |-> code, err |-> err]
NoBody == [k |-> "-"]
Idle == [op |-> "idle", pc |-> "idle", user |-> "-", body |-> NoBody,
         loc |-> NoBody, res |-> NoRes]
NoPre == [products |-> <<>>, carts |-> <<>>, orders |-> <<>>]
Snapshot == [products |-> products, carts |-> carts, orders |-> orders]

\* asyncHandler / errorHandler: the request ends with an HTTP status.
Respond(r, code, err) == [r EXCEPT !.pc = "done", !.res = Res(code, err)]

\* HTTP status the error middleware gives a thrown error.
StatusOf(err) ==
  CASE err = "ValidationError" -> 400
    [] err = "DuplicateKey" -> 400
    [] OTHER -> 500

\* A request arrives in slot p.  pre[p] remembers the store as the request
\* found it.
Begin(p, r) ==
  /\ rq[p].pc = "idle"
  /\ rq' = [rq EXCEPT ![p] = r]
  /\ pre' = [pre EXCEPT ![p] = Snapshot]
  /\ UNCHANGED <<products, carts, orders>>

\* nreq counts the requests taken so far, where a specification caps them.
Counted == nreq < MaxReqs /\ nreq' = nreq + 1
Uncounted == UNCHANGED nreq

\* The response has been sent; the slot takes the next request.
Finish(p) ==
  /\ rq[p].pc = "done"
  /\ rq' = [rq EXCEPT ![p] = Idle]
  /\ pre' = [pre EXCEPT ![p] = NoPre]
  /\ UNCHANGED <<products, carts, orders, nreq>>

\* One step of the request in slot p that touches no collection.
Step(p, r) ==
  /\ rq' = [rq EXCEPT ![p] = r]
  /\ UNCHANGED <<pre, nreq>>

Range(s) == {s[i] : i \in 1..Len(s)}

(* ---------------------------------------------------------------------- *)
(* Order model (models/Order.js)                                           *)
(* ---------------------------------------------------------------------- *)
Entry(status, location, details) ==
  [status |-> status, location |-> location, details |-> details]

\* new Order({...}) as createOrder builds it.  shippingAddress and
\* paymentMethod are not schema paths and are dropped, so shippingInfo is
\* unset; orderNumber is unset; orderStatus holds its default.
NewOrder(u, lines, itemsPrice, tax, shipping, total) ==
  [orderNumber |-> Absent,
   user |-> u,
   orderItems |-> lines,
   hasShippingInfo |-> FALSE,
   hasPaymentInfo |-> FALSE,
   itemsPrice |-> itemsPrice,
   taxPrice |-> tax,
   shippingPrice |-> shipping,
   totalPrice |-> total,
   orderStatus |-> "Processing",
   delivered |-> FALSE,
   trackingNumber |-> "",
   trackingUpdates |-> <<Entry("Order Placed", "Processing Center", "received")>>,
   isPaid |-> FALSE,
   paidAt |-> FALSE,
   v |-> 0]

\* Schema validation of an order document (required, min and enum validators).
OrderValid(doc) ==
  /\ doc.orderNumber # Absent
  /\ \A i \in 1..Len(doc.orderItems) : doc.orderItems[i].quantity >= 1
  /\ doc.orderStatus \in OrderStatusEnum
  /\ \A i \in 1..Len(doc.trackingUpdates) :
       /\ doc.trackingUpdates[i].status \in TrackingStatusEnum
       /\ doc.trackingUpdates[i].location # ""

\* String.prototype.padStart(width, '0'): zeros in front, never a cut.
RECURSIVE PadStart(_, _)
PadStart(str, width) ==
  IF Len(str) >= width THEN str ELSE PadStart("0" \o str, width)

\* `ORD-${(count + 1).toString().padStart(6, '0')}`
OrderNumber(count) == "ORD-" \o PadStart(ToString(count + 1), 6)

\* pre('save') #1: order number from the number of stored orders.
OrderNumberHook(doc, stored) ==
  IF doc.orderNumber = Absent
    THEN [doc EXCEPT !.orderNumber = Some(OrderNumber(Len(stored)))]
    ELSE doc

RECURSIVE DecrementAll(_, _)
DecrementAll(prods, lines) ==
  IF lines = <<>> THEN prods
  ELSE LET l == Head(lines) IN
       DecrementAll(
         IF prods[l.product].exists
           THEN [prods EXCEPT ![l.product].stock = @ - l.quantity]
           ELSE prods,
         Tail(lines))

\* pre('save') #2: bulkWrite of $inc {stock: -quantity} per order line, when
\* orderStatus is modified and is 'Processing'.
StockHookFires(doc, statusModified) ==
  statusModified /\ doc.orderStatus = "Processing"

\* pre('save') #3: a tracking entry when orderStatus is modified.  It reads
\* this.shippingInfo.city, a TypeError when shippingInfo is unset.
TrackingHookThrows(doc, statusModified) ==
  statusModified /\ ~doc.hasShippingInfo

\* Mutant of TrackingHook: the hook also empties the order lines.
TrackingHookDroppingItems(doc, statusModified) ==
  IF statusModified
    THEN [doc EXCEPT !.trackingUpdates =
            <<Entry(doc.orderStatus, "city", "updated")>> \o @,
                     !.orderItems = <<>>]
    ELSE doc

TrackingHook(doc, statusModified) ==
  IF statusModified
    THEN [doc EXCEPT !.trackingUpdates =
            <<Entry(doc.orderStatus, "city", "updated")>> \o @]
    ELSE doc

(* ---------------------------------------------------------------------- *)
(* createOrder (controllers/orderController.js)                            *)
(* ---------------------------------------------------------------------- *)
RECURSIVE CalculatedItemsPrice(_)
CalculatedItemsPrice(lines) ==
  IF lines = <<>> THEN 0
  ELSE Head(lines).price * Head(lines).quantity + CalculatedItemsPrice(Tail(lines))

\* Product.find({_id: {$in: productIds}}): one document per distinct id that
\* resolves.
FindProducts(lines, prods) ==
  {id \in {lines[i].product : i \in 1..Len(lines)} : prods[id].exists}

\* Mutant of NotEnoughStock: only an empty shelf is refused, whatever the
\* quantity asked.
NotEnoughStockOutOnly(lines, prods) ==
  \E i \in 1..Len(lines) : prods[lines[i].product].stock < 1

\* The stock check of the loop: some line asks for more than its product has.
NotEnoughStock(lines, prods) ==
  \E i \in 1..Len(lines) : prods[lines[i].product].stock < lines[i].quantity

\* Mutant of ItemsPriceMatches: the sum forgets the quantities.
RECURSIVE SumOfUnitPrices(_)
SumOfUnitPrices(lines) ==
  IF lines = <<>> THEN 0 ELSE Head(lines).price + SumOfUnitPrices(Tail(lines))
ItemsPriceMatchesNoQty(b) == SumOfUnitPrices(b.orderItems) = b.itemsPrice

\* Line 59.
ItemsPriceMatches(b) == CalculatedItemsPrice(b.orderItems) = b.itemsPrice

\* Number((0.15 * itemsPrice).toFixed(2)), in cents.
RoundedTax(itemsPrice) == (TaxRatePercent * itemsPrice + 50) \div 100

CalculatedTaxPrice(b) ==
  IF Truthy(b.taxPrice) THEN b.taxPrice[1] ELSE RoundedTax(b.itemsPrice)

CalculatedShippingPrice(b) ==
  IF Truthy(b.shippingPrice) THEN b.shippingPrice[1]
  ELSE IF b.itemsPrice > FreeShippingAbove THEN 0 ELSE FlatShipping

\* (itemsPrice + tax + shipping).toFixed(2): a string.
CalculatedTotalPrice(b) ==
  [str |-> TRUE,
   cents |-> b.itemsPrice + CalculatedTaxPrice(b) + CalculatedShippingPrice(b)]

\* Mutant of TotalMatches: the total leaves the shipping out.
TotalMatchesNoShipping(b) ==
  b.totalPrice = [str |-> TRUE, cents |-> b.itemsPrice + CalculatedTaxPrice(b)]

\* calculatedTotalPrice !== totalPrice is strict: a JSON number never equals
\* the string toFixed returns.
TotalMatches(b) == CalculatedTotalPrice(b) = b.totalPrice

\* Lines 22-24.
createOrderBegin(p, u, b) ==
  LET r == [op |-> "createOrder", pc |-> "co_find", user |-> u, body |-> b,
            loc |-> NoBody, res |-> NoRes]
  IN Begin(p, IF b.orderItems = <<>> THEN Respond(r, 400, "NoOrderItems") ELSE r)

\* Lines 26-94: the bulk fetch, the checks made on its result, and the order
\* document built when they pass.  loc.products is the fetched snapshot.
createOrderFind(p) ==
  /\ rq[p].pc = "co_find"
  /\ LET r == [rq[p] EXCEPT !.loc = [products |-> products]]
         b == r.body
         lines == b.orderItems
     IN Step(p,
          IF Cardinality(FindProducts(lines, products)) # Len(lines)
            THEN Respond(r, 404, "ProductsNotFound")
          ELSE IF NotEnoughStock(lines, products)
            THEN Respond(r, 400, "NotEnoughStock")
          ELSE IF ~ItemsPriceMatches(b)
            THEN Respond(r, 400, "ItemsUpdated")
          ELSE IF ~TotalMatches(b)
            THEN Respond(r, 400, "TotalMismatch")
          ELSE [r EXCEPT !.pc = "co_save",
                         !.loc = [products |-> products,
                                  doc |-> NewOrder(r.user, lines, b.itemsPrice,
                                                   CalculatedTaxPrice(b),
                                                   CalculatedShippingPrice(b),
                                                   CalculatedTotalPrice(b).cents)]])
  /\ UNCHANGED <<products, carts, orders>>

\* clearCart(): items = [] and save, a $set of the array guarded by the
\* version key; an empty cart is left as it is.
ClearedCart(c) ==
  IF c.exists /\ c.items # <<>> THEN [c EXCEPT !.items = <<>>, !.v = @ + 1] ELSE c

\* Lines 96-107: order.save() and what follows it.  Validation comes first
\* and the pre('save') hooks only after it; a new document's orderStatus is
\* its default, so it is not modified.
createOrderSave(p) ==
  /\ rq[p].pc = "co_save"
  /\ LET r == rq[p]
         doc == r.loc.doc
         numbered == OrderNumberHook(doc, orders)
         tracked == TrackingHook(numbered, FALSE)
     IN IF ~OrderValid(doc)
          THEN /\ Step(p, Respond(r, StatusOf("ValidationError"), "ValidationError"))
               /\ UNCHANGED <<products, carts, orders>>
        ELSE IF TrackingHookThrows(numbered, FALSE)
          THEN /\ Step(p, Respond(r, StatusOf("TypeError"), "TypeError"))
               /\ products' = IF StockHookFires(numbered, FALSE)
                                THEN DecrementAll(products, doc.orderItems)
                                ELSE products
               /\ UNCHANGED <<carts, orders>>
        ELSE IF \E i \in 1..Len(orders) : orders[i].orderNumber = numbered.orderNumber
          THEN /\ Step(p, Respond(r, StatusOf("DuplicateKey"), "DuplicateKey"))
               /\ products' = IF StockHookFires(numbered, FALSE)
                                THEN DecrementAll(products, doc.orderItems)
                                ELSE products
               /\ UNCHANGED <<carts, orders>>
        ELSE /\ Step(p, Respond(r, 201, "-"))
             /\ products' = IF StockHookFires(numbered, FALSE)
                              THEN DecrementAll(products, doc.orderItems)
                              ELSE products
             /\ orders' = Append(orders, tracked)
             /\ carts' = [carts EXCEPT ![r.user] = ClearedCart(@)]

(* ---------------------------------------------------------------------- *)
(* Order status operations (controllers/orderController.js)                *)
(* ---------------------------------------------------------------------- *)
\* Order.findById(req.params.id): orders are addressed by their position.
FindOrder(id) == id \in 1..Len(orders)

\* Mutant of NotOwnerNorAdmin: only the owner passes.
NotOwner(order, u) == order.user # u

\* Lines 124-127 and 150-153: the caller is neither the owner nor an admin.
NotOwnerNorAdmin(order, u) == order.user # u /\ Role(u) # "admin"

\* Mutant of NotInRoles: every role passes.
NoRoleRefused(u, roles) == FALSE

\* authorize(...roles), middleware/auth.js lines 38-50.
NotInRoles(u, roles) == Role(u) \notin roles

\* GET /:id, lines 114-136.  The owner reference is populated; the order's
\* user exists, so order.user._id is the owner's id.
getOrderByIdBegin(p, u, id) ==
  Begin(p, [op |-> "getOrderById", pc |-> "go_find", user |-> u,
            body |-> NoBody, loc |-> [id |-> id], res |-> NoRes])

getOrderByIdFind(p) ==
  /\ rq[p].pc = "go_find"
  /\ LET r == rq[p]
         id == r.loc.id
     IN Step(p,
          IF ~FindOrder(id) THEN Respond(r, 404, "OrderNotFound")
          ELSE IF NotOwnerNorAdmin(orders[id], r.user)
            THEN Respond(r, 401, "NotAuthorized")
          ELSE Respond([r EXCEPT !.loc = [id |-> id, data |-> orders[id]]], 200, "-"))
  /\ UNCHANGED <<products, carts, orders>>

\* GET /, behind authorize('admin'): Order.find().
getOrdersBegin(p, u) ==
  LET r == [op |-> "getOrders", pc |-> "gos_find", user |-> u,
            body |-> NoBody, loc |-> NoBody, res |-> NoRes]
  IN Begin(p, IF NotInRoles(u, {"admin"}) THEN Respond(r, 403, "Forbidden") ELSE r)

\* sort({createdAt: -1}): newest first.
NewestFirst(s) == [i \in 1..Len(s) |-> s[Len(s) + 1 - i]]

getOrdersFind(p) ==
  /\ rq[p].pc = "gos_find"
  /\ Step(p, Respond([rq[p] EXCEPT !.loc = [data |-> NewestFirst(orders)]], 200, "-"))
  /\ UNCHANGED <<products, carts, orders>>

\* PUT /:id/pay.  Any authenticated user reaches the handler.
updateOrderToPaidBegin(p, u, id) ==
  Begin(p, [op |-> "updateOrderToPaid", pc |-> "pay_find", user |-> u,
            body |-> NoBody, loc |-> [id |-> id], res |-> NoRes])

\* Lines 143-174: load, owner-or-admin check, in-memory changes.
\* paymentResult is not a schema path and is dropped; orderStatus is not
\* touched.
updateOrderToPaidFind(p) ==
  /\ rq[p].pc = "pay_find"
  /\ LET r == rq[p]
         id == r.loc.id
     IN Step(p,
          IF ~FindOrder(id) THEN Respond(r, 404, "OrderNotFound")
          ELSE IF NotOwnerNorAdmin(orders[id], r.user)
            THEN Respond(r, 401, "NotAuthorized")
          ELSE [r EXCEPT
                  !.pc = "os_hooks",
                  !.loc = [id |-> id,
                           v |-> orders[id].v,
                           statusModified |-> FALSE,
                           doc |-> [orders[id] EXCEPT
                                      !.isPaid = TRUE,
                                      !.paidAt = TRUE,
                                      !.trackingUpdates =
                                         <<Entry("Processing", "Processing Center", "paid")>> \o @]]])
  /\ UNCHANGED <<products, carts, orders>>

\* PUT /:id/deliver, behind authorize('admin').
updateOrderToDeliveredBegin(p, u, id) ==
  LET r == [op |-> "updateOrderToDelivered", pc |-> "dl_find", user |-> u,
            body |-> NoBody, loc |-> [id |-> id], res |-> NoRes]
  IN Begin(p, IF NotInRoles(u, {"admin"}) THEN Respond(r, 403, "Forbidden") ELSE r)

\* Lines 188-204.  order.shippingAddress is not a schema path, so it is
\* undefined on every loaded order and reading .city throws before save().
updateOrderToDeliveredFind(p) ==
  /\ rq[p].pc = "dl_find"
  /\ LET r == rq[p]
     IN Step(p,
          IF ~FindOrder(r.loc.id) THEN Respond(r, 404, "OrderNotFound")
          ELSE Respond(r, StatusOf("TypeError"), "TypeError"))
  /\ UNCHANGED <<products, carts, orders>>

\* PUT /:id/status, behind authorize('admin').  Lines 218-222.
updateOrderStatusBegin(p, u, id, b) ==
  LET r == [op |-> "updateOrderStatus", pc |-> "st_find", user |-> u,
            body |-> b, loc |-> [id |-> id], res |-> NoRes]
  IN Begin(p, IF NotInRoles(u, {"admin"}) THEN Respond(r, 403, "Forbidden")
              ELSE IF b.status = Absent THEN Respond(r, 400, "StatusRequired")
              ELSE r)

\* Lines 224-244: load and in-memory changes.  orderStatus counts as
\* modified only when the new value differs from the loaded one.
updateOrderStatusFind(p) ==
  /\ rq[p].pc = "st_find"
  /\ LET r == rq[p]
         id == r.loc.id
         b == r.body
         status == b.status[1]
     IN Step(p,
          IF ~FindOrder(id) THEN Respond(r, 404, "OrderNotFound")
          ELSE [r EXCEPT
                  !.pc = "os_hooks",
                  !.loc = [id |-> id,
                           v |-> orders[id].v,
                           statusModified |-> status # orders[id].orderStatus,
                           doc |-> [orders[id] EXCEPT
                                      !.orderStatus = status,
                                      !.trackingNumber =
                                         IF b.trackingNumber # Absent
                                           THEN b.trackingNumber[1] ELSE @,
                                      !.trackingUpdates =
                                         <<Entry(status,
                                                 IF b.location # Absent
                                                   THEN b.location[1]
                                                   ELSE "Processing Center",
                                                 "updated")>> \o @]]])
  /\ UNCHANGED <<products, carts, orders>>

\* order.save(), first part: validation, then pre('save') #1 (the stored
\* order has its number) and pre('save') #2, whose bulkWrite reaches the
\* products before the order itself is written.
orderSaveHooks(p) ==
  /\ rq[p].pc = "os_hooks"
  /\ LET r == rq[p]
         doc == r.loc.doc
     IN IF ~OrderValid(doc)
          THEN /\ Step(p, Respond(r, StatusOf("ValidationError"), "ValidationError"))
               /\ UNCHANGED <<products, carts, orders>>
          ELSE /\ Step(p, [r EXCEPT !.pc = "os_write"])
               /\ products' = IF StockHookFires(doc, r.loc.statusModified)
                                THEN DecrementAll(products, doc.orderItems)
                                ELSE products
               /\ UNCHANGED <<carts, orders>>

\* order.save(), second part: pre('save') #3 and the update.  The unshift
\* makes the update a $set of trackingUpdates guarded by the version key.
orderSaveWrite(p) ==
  /\ rq[p].pc = "os_write"
  /\ LET r == rq[p]
         id == r.loc.id
         doc == r.loc.doc
         m == r.loc.statusModified
     IN IF TrackingHookThrows(doc, m)
          THEN /\ Step(p, Respond(r, StatusOf("TypeError"), "TypeError"))
               /\ UNCHANGED <<products, carts, orders>>
        ELSE IF orders[id].v # r.loc.v
          THEN /\ Step(p, Respond(r, StatusOf("VersionError"), "VersionError"))
               /\ UNCHANGED <<products, carts, orders>>
        ELSE /\ Step(p, Respond(r, 200, "-"))
             /\ orders' = [orders EXCEPT
                             ![id] = [TrackingHook(doc, m) EXCEPT !.v = @ + 1]]
             /\ UNCHANGED <<products, carts>>

(* ---------------------------------------------------------------------- *)
(* Cart model and addToCart (models/Cart.js, controllers/cartController.js)*)
(* ---------------------------------------------------------------------- *)
\* ObjectId.prototype.toString(): the id string.
ObjectIdToString(id) == id
\* Document.prototype.toString() of a populated product: the inspect string
\* of the document.
DocumentToString(id) == "{ _id: " \o id \o " }"

\* items.product of a loaded cart: an ObjectId, or after populate() the
\* product document (null when the product is gone).
Ref(id) == [populated |-> FALSE, null |-> FALSE, id |-> id]
PopulatedRef(id, prods) == [populated |-> TRUE, null |-> ~prods[id].exists, id |-> id]
RefToString(ref) ==
  IF ref.populated THEN DocumentToString(ref.id) ELSE ObjectIdToString(ref.id)

\* The cart document in memory.
LoadedCart(c) ==
  [items |-> [i \in 1..Len(c.items) |->
                [c.items[i] EXCEPT !.product = Ref(c.items[i].product)]],
   v |-> c.v]
PopulatedCart(lc, prods) ==
  [lc EXCEPT !.items = [i \in 1..Len(lc.items) |->
                          [lc.items[i] EXCEPT !.product = PopulatedRef(@.id, prods)]]]

\* this.items.findIndex(item => item.product.toString() === productId):
\* the first matching position, 0 for none.  null.toString() throws.
ItemMatches(item, productId) == RefToString(item.product) = productId
FindIndex(items, productId) ==
  IF \E i \in 1..Len(items) : ItemMatches(items[i], productId)
    THEN CHOOSE i \in 1..Len(items) :
           /\ ItemMatches(items[i], productId)
           /\ \A j \in 1..(i - 1) : ~ItemMatches(items[j], productId)
    ELSE 0
FindIndexThrows(items, productId) ==
  \E i \in 1..Len(items) :
    /\ items[i].product.null
    /\ \A j \in 1..(i - 1) : ~ItemMatches(items[j], productId)

\* POST /api/v1/cart/items, lines 86-90.  quantity defaults to 1.
addToCartBegin(p, u, b) ==
  LET r == [op |-> "addToCart", pc |-> "gc_find", user |-> u, body |-> b,
            loc |-> NoBody, res |-> NoRes]
  IN Begin(p, IF b.productId = Absent THEN Respond(r, 400, "NoProductId") ELSE r)

\* getOrCreateCart, line 71: findOne({user}).
getOrCreateCartFind(p) ==
  /\ rq[p].pc = "gc_find"
  /\ LET r == rq[p]
     IN Step(p, IF carts[r.user].exists
                  THEN [r EXCEPT !.pc = "gc_populate",
                                 !.loc = [cart |-> LoadedCart(carts[r.user])]]
                  ELSE [r EXCEPT !.pc = "gc_create"])
  /\ UNCHANGED <<products, carts, orders>>

\* getOrCreateCart, lines 73-75: create({user, items: []}).  The unique index
\* on user refuses a second cart.
getOrCreateCartCreate(p) ==
  /\ rq[p].pc = "gc_create"
  /\ LET r == rq[p]
     IN IF carts[r.user].exists
          THEN /\ Step(p, Respond(r, StatusOf("DuplicateKey"), "DuplicateKey"))
               /\ UNCHANGED <<products, carts, orders>>
          ELSE /\ Step(p, [r EXCEPT !.pc = "gc_populate",
                                    !.loc = [cart |-> LoadedCart(Cart(<<>>))]])
               /\ carts' = [carts EXCEPT ![r.user] = Cart(<<>>)]
               /\ UNCHANGED <<products, orders>>

\* The cart document as it is written back: references by id.
Depopulated(items) ==
  [i \in 1..Len(items) |-> [items[i] EXCEPT !.product = @.id]]

\* The virtuals totalPrice and totalItems (lines 50-61), over the lines of
\* the cart document in memory.
\* Mutant of TotalItems: the number of lines.
RECURSIVE TotalItemsIgnoringQuantity(_)
TotalItemsIgnoringQuantity(items) ==
  IF items = <<>> THEN 0 ELSE 1 + TotalItemsIgnoringQuantity(Tail(items))
\* Mutant of TotalPrice: the price of the product as it is now.
RECURSIVE TotalPriceLive(_)
TotalPriceLive(items) ==
  IF items = <<>> THEN 0
  ELSE TotalPriceLive(Tail(items))
       + products[Head(items).product.id].price * Head(items).quantity
RECURSIVE TotalPrice(_)
TotalPrice(items) ==
  IF items = <<>> THEN 0
  ELSE TotalPrice(Tail(items)) + Head(items).price * Head(items).quantity
RECURSIVE TotalItems(_)
TotalItems(items) ==
  IF items = <<>> THEN 0 ELSE TotalItems(Tail(items)) + Head(items).quantity

\* getCartSummary, lines 177-181.
CartSummary(items) ==
  [totalItems |-> TotalItems(items), totalPrice |-> TotalPrice(items),
   items |-> Len(items)]

\* What a cart method leaves to save(): nothing ("none"), a replaced items
\* array ("items"), a changed quantity ("set"), a pushed line ("push"), or
\* it threw before save() ("throw").
NoChange == [kind |-> "none"]
Throws == [kind |-> "throw"]

\* this.items = value marks the path modified only when the value differs.
ItemsChange(cart, kept) ==
  IF kept = cart.items THEN NoChange
  ELSE [kind |-> "items", items |-> Depopulated(kept)]

\* removeItem, lines 114-119: the filter visits every line.
RemoveItemChange(cart, productId) ==
  IF \E i \in 1..Len(cart.items) : cart.items[i].product.null THEN Throws
  ELSE ItemsChange(cart, SelectSeq(cart.items,
                                   LAMBDA it : ~ItemMatches(it, productId)))

\* Mutant of UpdateItemQuantityChange: a quantity below 1 empties the cart.
UpdateItemQuantityChangeClears(cart, productId, quantity) ==
  IF quantity < 1 THEN ItemsChange(cart, <<>>)
  ELSE IF FindIndexThrows(cart.items, productId) THEN Throws
  ELSE IF FindIndex(cart.items, productId) = 0 THEN NoChange
  ELSE IF cart.items[FindIndex(cart.items, productId)].quantity = quantity
    THEN NoChange
  ELSE [kind |-> "set", index |-> FindIndex(cart.items, productId),
        quantity |-> quantity, hasImage |-> TRUE]

\* updateItemQuantity, lines 123-136.
UpdateItemQuantityChange(cart, productId, quantity) ==
  IF quantity < 1 THEN RemoveItemChange(cart, productId)
  ELSE IF FindIndexThrows(cart.items, productId) THEN Throws
  ELSE IF FindIndex(cart.items, productId) = 0 THEN NoChange
  ELSE IF cart.items[FindIndex(cart.items, productId)].quantity = quantity
    THEN NoChange
  ELSE [kind |-> "set", index |-> FindIndex(cart.items, productId),
        quantity |-> quantity, hasImage |-> TRUE]

\* clearCart, lines 140-142.
ClearCartChange(cart) == ItemsChange(cart, <<>>)

\* A cart method called on the populated cart, up to its save().
CallMethod(r, cart, change) ==
  IF change.kind = "throw"
    THEN Respond([r EXCEPT !.loc = [cart |-> cart]], StatusOf("TypeError"), "TypeError")
    ELSE [r EXCEPT !.pc = "cart_save", !.loc = [cart |-> cart, change |-> change]]

\* The lines of the cart document mergeCarts keeps in memory over its loop:
\* isNew marks a pushed line no save() has written yet, dirty a written line
\* whose quantity was changed since.
MemItems(items) ==
  [i \in 1..Len(items) |->
     [product |-> items[i].product, price |-> items[i].price,
      quantity |-> items[i].quantity, hasImage |-> TRUE,
      isNew |-> FALSE, dirty |-> FALSE]]

\* What each controller does with the cart getOrCreateCart returned, up to
\* its next await.
AfterPopulate(r, cart) ==
  CASE r.op = "getCart" ->
         Respond([r EXCEPT !.loc = [cart |-> cart]], 200, "-")
    [] r.op = "getCartSummary" ->
         Respond([r EXCEPT !.loc = [cart |-> cart,
                                    summary |-> CartSummary(cart.items)]], 200, "-")
    [] r.op = "updateCartItem" ->
         CallMethod(r, cart,
                    UpdateItemQuantityChange(cart, r.body.productId, r.body.quantity[1]))
    [] r.op = "removeFromCart" ->
         CallMethod(r, cart, RemoveItemChange(cart, r.body.productId))
    [] r.op = "clearCart" ->
         CallMethod(r, cart, ClearCartChange(cart))
    [] r.op = "mergeCarts" ->
         [r EXCEPT !.pc = "mg_item",
                   !.loc = [v |-> cart.v, mem |-> MemItems(cart.items),
                            rest |-> r.body.guestCart[1]]]
    [] OTHER -> [r EXCEPT !.pc = "addItem", !.loc = [cart |-> cart]]

\* getOrCreateCart, line 77: populate('items.product').
getOrCreateCartPopulate(p) ==
  /\ rq[p].pc = "gc_populate"
  /\ Step(p, AfterPopulate(rq[p], PopulatedCart(rq[p].loc.cart, products)))
  /\ UNCHANGED <<products, carts, orders>>

\* addItem, lines 82-108: the product lookup, the stock check and the change
\* made to the in-memory cart.  A thrown Error reaches the error middleware
\* without a status.
addItemFind(p) ==
  /\ rq[p].pc = "addItem"
  /\ LET r == rq[p]
         productId == r.body.productId[1]
         quantity == IF r.body.quantity = Absent THEN 1 ELSE r.body.quantity[1]
         product == products[productId]
         items == r.loc.cart.items
         itemIndex == FindIndex(items, productId)
     IN Step(p,
          IF ~product.exists
            THEN Respond(r, StatusOf("Error"), "ProductNotFound")
          ELSE IF product.stock < quantity
            THEN Respond(r, StatusOf("Error"), "NotEnoughStockAvailable")
          ELSE IF FindIndexThrows(items, productId)
            THEN Respond(r, StatusOf("TypeError"), "TypeError")
          ELSE IF itemIndex > 0
            THEN [r EXCEPT !.pc = "cart_save",
                           !.loc = [cart |-> r.loc.cart,
                                    change |-> [kind |-> "set", index |-> itemIndex,
                                                quantity |-> items[itemIndex].quantity + quantity,
                                                hasImage |-> TRUE]]]
          ELSE [r EXCEPT !.pc = "cart_save",
                         !.loc = [cart |-> r.loc.cart,
                                  change |-> [kind |-> "push",
                                              item |-> CartItem(productId, product.price, quantity),
                                              quantity |-> quantity,
                                              hasImage |-> product.hasImage]]])
  /\ UNCHANGED <<products, carts, orders>>

\* cartItemSchema validators on the line that changed: quantity min 1,
\* image required (an empty string does not satisfy required).
CartItemValid(change) == change.quantity >= 1 /\ change.hasImage

\* Where a cart controller goes once the method's save() has resolved:
\* clearCart answers, the others fetch the cart again.
AfterSave(r) ==
  CASE r.op = "clearCart" -> Respond(r, 200, "-")
    [] r.op = "updateCartItem" -> [r EXCEPT !.pc = "uc_refetch"]
    [] r.op = "removeFromCart" -> [r EXCEPT !.pc = "rc_refetch"]
    [] OTHER -> [r EXCEPT !.pc = "ac_refetch"]

\* this.save() of a cart method (lines 110, 119, 136, 142).  A push is sent
\* as $push and increments the version key; a replaced items array is a $set
\* guarded by the version key, which it increments; a changed quantity is a
\* $set under the array, guarded by the version key.  With nothing changed
\* only updatedAt is written.
cartSave(p) ==
  /\ rq[p].pc = "cart_save"
  /\ LET r == rq[p]
         c == carts[r.user]
         change == r.loc.change
     IN IF change.kind \in {"push", "set"} /\ ~CartItemValid(change)
          THEN /\ Step(p, Respond(r, StatusOf("ValidationError"), "ValidationError"))
               /\ UNCHANGED <<products, carts, orders>>
        ELSE IF change.kind = "none"
          THEN /\ Step(p, AfterSave(r))
               /\ UNCHANGED <<products, carts, orders>>
        ELSE IF change.kind = "push"
          THEN /\ Step(p, AfterSave(r))
               /\ carts' = [carts EXCEPT ![r.user] =
                              [c EXCEPT !.items = Append(@, change.item), !.v = @ + 1]]
               /\ UNCHANGED <<products, orders>>
        ELSE IF c.v # r.loc.cart.v
          THEN /\ Step(p, Respond(r, StatusOf("VersionError"), "VersionError"))
               /\ UNCHANGED <<products, carts, orders>>
        ELSE IF change.kind = "items"
          THEN /\ Step(p, AfterSave(r))
               /\ carts' = [carts EXCEPT ![r.user] =
                              [c EXCEPT !.items = change.items, !.v = @ + 1]]
               /\ UNCHANGED <<products, orders>>
        ELSE /\ Step(p, AfterSave(r))
             /\ carts' = [carts EXCEPT ![r.user] =
                            [c EXCEPT !.items[change.index].quantity = change.quantity]]
             /\ UNCHANGED <<products, orders>>

\* addToCart, lines 99-104: the cart is fetched again for the response.
addToCartRefetch(p) ==
  /\ rq[p].pc = "ac_refetch"
  /\ Step(p, Respond(rq[p], 200, "-"))
  /\ UNCHANGED <<products, carts, orders>>

\* updateCartItem, lines 125-130.
updateCartItemRefetch(p) ==
  /\ rq[p].pc = "uc_refetch"
  /\ Step(p, Respond(rq[p], 200, "-"))
  /\ UNCHANGED <<products, carts, orders>>

\* removeFromCart, lines 146-151.
removeFromCartRefetch(p) ==
  /\ rq[p].pc = "rc_refetch"
  /\ Step(p, Respond(rq[p], 200, "-"))
  /\ UNCHANGED <<products, carts, orders>>

\* GET /api/v1/cart and GET /api/v1/cart/summary.
getCartBegin(p, u) ==
  Begin(p, [op |-> "getCart", pc |-> "gc_find", user |-> u, body |-> NoBody,
            loc |-> NoBody, res |-> NoRes])
getCartSummaryBegin(p, u) ==
  Begin(p, [op |-> "getCartSummary", pc |-> "gc_find", user |-> u, body |-> NoBody,
            loc |-> NoBody, res |-> NoRes])

\* PUT /api/v1/cart/items/:productId, lines 111-116.
updateCartItemBegin(p, u, productId, quantity) ==
  LET r == [op |-> "updateCartItem", pc |-> "gc_find", user |-> u,
            body |-> [productId |-> productId, quantity |-> quantity],
            loc |-> NoBody, res |-> NoRes]
  IN Begin(p, IF quantity = Absent THEN Respond(r, 400, "NoQuantity") ELSE r)

\* DELETE /api/v1/cart/items/:productId and DELETE /api/v1/cart.
removeFromCartBegin(p, u, productId) ==
  Begin(p, [op |-> "removeFromCart", pc |-> "gc_find", user |-> u,
            body |-> [productId |-> productId], loc |-> NoBody, res |-> NoRes])
clearCartBegin(p, u) ==
  Begin(p, [op |-> "clearCart", pc |-> "gc_find", user |-> u, body |-> NoBody,
            loc |-> NoBody, res |-> NoRes])

(* ---------------------------------------------------------------------- *)
(* mergeCarts (controllers/cartController.js lines 188-215)                *)
(* ---------------------------------------------------------------------- *)
\* POST /api/v1/cart/merge, lines 189-193.
mergeCartsBegin(p, u, b) ==
  LET r == [op |-> "mergeCarts", pc |-> "gc_find", user |-> u, body |-> b,
            loc |-> NoBody, res |-> NoRes]
  IN Begin(p, IF b.guestCart = Absent THEN Respond(r, 400, "InvalidGuestCart") ELSE r)

\* The error of an addItem call is caught and logged: the loop goes on with
\* the next guest item, on the same document.
Swallow(r) == [r EXCEPT !.pc = "mg_item", !.loc.rest = Tail(@)]

\* One turn of the loop, lines 199-201, up to the save() of addItem: the
\* product lookup, the stock check and the change made to the document in
\* memory.  A line pushed by an earlier turn holds the product id, not a
\* populated document, so findIndex can match it.
mergeCartsAddItem(p) ==
  /\ rq[p].pc = "mg_item"
  /\ LET r == rq[p]
         mem == r.loc.mem
     IN Step(p,
          IF r.loc.rest = <<>> THEN [r EXCEPT !.pc = "mg_refetch"]
          ELSE
            LET item == Head(r.loc.rest)
                productId == item.product
                quantity == IF item.quantity = Absent THEN 1 ELSE item.quantity[1]
                product == products[productId]
                itemIndex == FindIndex(mem, productId)
            IN IF ~product.exists THEN Swallow(r)
               ELSE IF product.stock < quantity THEN Swallow(r)
               ELSE IF FindIndexThrows(mem, productId) THEN Swallow(r)
               ELSE IF itemIndex > 0
                 THEN [r EXCEPT
                         !.pc = "mg_save",
                         !.loc.mem[itemIndex] =
                            [@ EXCEPT !.quantity = @ + quantity,
                                      !.dirty = ~mem[itemIndex].isNew /\ quantity # 0]]
               ELSE [r EXCEPT
                       !.pc = "mg_save",
                       !.loc.mem = Append(@, [product |-> Ref(productId),
                                              price |-> product.price,
                                              quantity |-> quantity,
                                              hasImage |-> product.hasImage,
                                              isNew |-> TRUE, dirty |-> FALSE])])
  /\ UNCHANGED <<products, carts, orders>>

\* Validation of the document in memory: every line that is new or changed.
MemValid(mem) ==
  \A i \in 1..Len(mem) :
    (mem[i].isNew \/ mem[i].dirty) => CartItemValid(mem[i])

\* The items save() leaves persisted: changed quantities are set in place,
\* new lines are pushed after the persisted ones.
MemWritten(stored, mem) ==
  [i \in 1..Len(stored) |->
     IF i <= Len(mem) /\ mem[i].dirty
       THEN [stored[i] EXCEPT !.quantity = mem[i].quantity] ELSE stored[i]]
  \o Depopulated([i \in 1..Len(SelectSeq(mem, LAMBDA it : it.isNew)) |->
                    LET it == SelectSeq(mem, LAMBDA x : x.isNew)[i]
                    IN [product |-> it.product, price |-> it.price,
                        quantity |-> it.quantity]])

\* The save() of addItem (Cart.js line 110) inside the loop.  It validates
\* the whole document, the lines of earlier turns that no save() wrote
\* included; its error is caught by the loop.
mergeCartsSave(p) ==
  /\ rq[p].pc = "mg_save"
  /\ LET r == rq[p]
         c == carts[r.user]
         mem == r.loc.mem
         pushes == \E i \in 1..Len(mem) : mem[i].isNew
         sets == \E i \in 1..Len(mem) : mem[i].dirty
     IN IF ~MemValid(mem)
          THEN /\ Step(p, Swallow(r))
               /\ UNCHANGED <<products, carts, orders>>
        ELSE IF sets /\ c.v # r.loc.v
          THEN /\ Step(p, Swallow(r))
               /\ UNCHANGED <<products, carts, orders>>
        ELSE /\ Step(p, [Swallow(r) EXCEPT
                           !.loc.v = IF pushes THEN @ + 1 ELSE @,
                           !.loc.mem = [i \in 1..Len(mem) |->
                                          [mem[i] EXCEPT !.isNew = FALSE,
                                                         !.dirty = FALSE]]])
             /\ carts' = [carts EXCEPT ![r.user] =
                            [c EXCEPT !.items = MemWritten(c.items, mem),
                                      !.v = IF pushes THEN @ + 1 ELSE @]]
             /\ UNCHANGED <<products, orders>>

\* Lines 208-214: the cart is fetched again for the response.
mergeCartsRefetch(p) ==
  /\ rq[p].pc = "mg_refetch"
  /\ Step(p, Respond(rq[p], 200, "-"))
  /\ UNCHANGED <<products, carts, orders>>

(* ---------------------------------------------------------------------- *)
(* Product edit and deletion (controllers/productController.js)            *)
(* ---------------------------------------------------------------------- *)
\* Update validators of productSchema on the fields sent: stock max, price
\* min.  Stock has no minimum.
ProductUpdateValid(b) ==
  /\ b.stock # Absent => b.stock[1] <= MaxProductStock
  /\ b.price # Absent => b.price[1] >= 0

\* PUT /api/v1/products/:id, behind authorize('admin').
updateProductBegin(p, u, id, b) ==
  LET r == [op |-> "updateProduct", pc |-> "up_find", user |-> u,
            body |-> b, loc |-> [id |-> id], res |-> NoRes]
  IN Begin(p, IF NotInRoles(u, {"admin"}) THEN Respond(r, 403, "Forbidden") ELSE r)

\* Lines 123-140: findById.  Only an admin reaches the handler, so its
\* seller-or-admin check passes.
updateProductFind(p) ==
  /\ rq[p].pc = "up_find"
  /\ LET r == rq[p]
     IN Step(p, IF ~products[r.loc.id].exists
                  THEN Respond(r, 404, "ProductNotFound")
                  ELSE [r EXCEPT !.pc = "up_update"])
  /\ UNCHANGED <<products, carts, orders>>

\* Lines 142-147: findByIdAndUpdate(id, req.body, {runValidators: true}).
updateProductUpdate(p) ==
  /\ rq[p].pc = "up_update"
  /\ LET r == rq[p]
         id == r.loc.id
         b == r.body
     IN IF ~ProductUpdateValid(b)
          THEN /\ Step(p, Respond(r, StatusOf("ValidationError"), "ValidationError"))
               /\ UNCHANGED <<products, carts, orders>>
          ELSE /\ Step(p, Respond(r, 200, "-"))
               /\ products' =
                    IF products[id].exists
                      THEN [products EXCEPT
                              ![id].stock = IF b.stock # Absent THEN b.stock[1] ELSE @,
                              ![id].price = IF b.price # Absent THEN b.price[1] ELSE @]
                      ELSE products
               /\ UNCHANGED <<carts, orders>>

\* DELETE /api/v1/products/:id, behind authorize('admin').
deleteProductBegin(p, u, id) ==
  LET r == [op |-> "deleteProduct", pc |-> "dp_find", user |-> u,
            body |-> NoBody, loc |-> [id |-> id], res |-> NoRes]
  IN Begin(p, IF NotInRoles(u, {"admin"}) THEN Respond(r, 403, "Forbidden") ELSE r)

\* Lines 153-169: findById.
deleteProductFind(p) ==
  /\ rq[p].pc = "dp_find"
  /\ LET r == rq[p]
     IN Step(p, IF ~products[r.loc.id].exists
                  THEN Respond(r, 404, "ProductNotFound")
                  ELSE [r EXCEPT !.pc = "dp_remove"])
  /\ UNCHANGED <<products, carts, orders>>

\* Line 171: product.remove().  The pre('remove') hook of productSchema asks
\* for the model 'Review'; no module registers one (reviews are embedded in
\* the product), so the hook throws MissingSchemaError and nothing is
\* removed.
deleteProductRemove(p) ==
  /\ rq[p].pc = "dp_remove"
  /\ Step(p, Respond(rq[p], StatusOf("MissingSchemaError"), "MissingSchemaError"))
  /\ UNCHANGED <<products, carts, orders>>

(* ---------------------------------------------------------------------- *)
(* Stores the server can start on, and request inputs                      *)
(* ---------------------------------------------------------------------- *)
InitProducts(stockA, stockB) ==
  [id \in ProductIds |->
     CASE id = "A" -> Product(stockA, 1000)
       [] id = "B" -> Product(stockB, 6000)
       [] OTHER -> NoProduct]

InitRequests ==
  /\ rq = [p \in Procs |-> Idle]
  /\ pre = [p \in Procs |-> NoPre]
  /\ nreq = 0

\* Order lines a client may declare, and lists of up to two of them.
OrderLines == [product : ProductIds, quantity : 1..MaxQty, price : PriceVals]
OrderItemLists ==
  {<<>>} \cup {<<l>> : l \in OrderLines}
         \cup {<<l1, l2>> : l1 \in OrderLines, l2 \in OrderLines}

ItemsPriceVals == {1000, 2000, 12000}
TaxVals == Opt({0, 200})
ShippingVals == Opt({0, 500})
TotalVals == [str : BOOLEAN, cents : {1700, 2150, 13800}]

CheckoutBodies ==
  [orderItems : OrderItemLists, itemsPrice : ItemsPriceVals, taxPrice : TaxVals,
   shippingPrice : ShippingVals, totalPrice : TotalVals]

(* ---------------------------------------------------------------------- *)
(* SpecCheckout: checkouts one after another, on a store holding carts     *)
(* ---------------------------------------------------------------------- *)
InitCheckout ==
  /\ \E sa \in 0..MaxStock : products = InitProducts(sa, MaxStock)
  /\ \E c \in {NoCart, Cart(<<CartItem("A", 1000, 1)>>)} :
       carts = [u \in Users |->
                  CASE u = "u1" -> c
                    [] u = "u2" -> Cart(<<CartItem("B", 6000, 1)>>)
                    [] OTHER -> NoCart]
  /\ orders = <<>>
  /\ InitRequests

NextCheckout ==
  \/ /\ rq["r1"].pc = "idle"
     /\ \E b \in CheckoutBodies : createOrderBegin("r1", "u1", b) /\ Uncounted
  \/ createOrderFind("r1")
  \/ createOrderSave("r1")
  \/ Finish("r1")

SpecCheckout == InitCheckout /\ [][NextCheckout]_vars

(* ---------------------------------------------------------------------- *)
(* SpecRace: two checkouts whose steps interleave                          *)
(* ---------------------------------------------------------------------- *)
RaceBodies ==
  [orderItems : {<<l>> : l \in [product : {"A", "B"}, quantity : 1..MaxQty,
                                price : {1000}]},
   itemsPrice : {1000, 2000}, taxPrice : {Absent}, shippingPrice : {Absent},
   totalPrice : [str : BOOLEAN, cents : {2150, 3300}]]

NextRace ==
  \/ \E p \in Procs :
       /\ rq[p].pc = "idle"
       /\ \E u \in {"u1", "u2"}, b \in RaceBodies : createOrderBegin(p, u, b) /\ Counted
  \/ \E p \in Procs : createOrderFind(p)
  \/ \E p \in Procs : createOrderSave(p)
  \/ \E p \in Procs : Finish(p)

SpecRace == InitCheckout /\ [][NextRace]_vars

(* ---------------------------------------------------------------------- *)
(* SpecOrders: status operations, one after another, on a stored order     *)
(* ---------------------------------------------------------------------- *)
\* An order document as the collection holds it: numbered, owned by u,
\* optionally with shippingInfo.  createOrder stores none (createOrderSave),
\* so the status operations are exercised on a collection that already
\* holds an order, as a seeded or imported database does.
StoredOrder(u, lines, status, ship) ==
  [NewOrder(u, lines, CalculatedItemsPrice(lines), 0, 0, CalculatedItemsPrice(lines))
     EXCEPT !.orderNumber = Some(OrderNumber(0)), !.orderStatus = status,
            !.hasShippingInfo = ship]

\* "In Transit" is a tracking status but not an order status.
StatusVals == {"Processing", "Shipped", "In Transit"}
StatusBodies ==
  [status : Opt(StatusVals), trackingNumber : Opt({"TN1"}), location : Opt({"Hub"})]
OrderIdVals == {1, 2}

InitOrders ==
  /\ \E sa \in 0..MaxStock : products = InitProducts(sa, MaxStock)
  /\ carts = [u \in Users |-> NoCart]
  /\ \E q \in 1..MaxQty, s \in {"Processing", "Shipped"}, ship \in BOOLEAN :
       orders = <<StoredOrder("u1", <<[product |-> "A", quantity |-> q, price |-> 1000]>>,
                              s, ship)>>
  /\ InitRequests

NextOrders ==
  \/ /\ rq["r1"].pc = "idle"
     /\ \E u \in Users, id \in OrderIdVals : updateOrderToPaidBegin("r1", u, id) /\ Counted
  \/ /\ rq["r1"].pc = "idle"
     /\ \E u \in {"u1", "ad"}, id \in OrderIdVals :
          updateOrderToDeliveredBegin("r1", u, id) /\ Counted
  \/ /\ rq["r1"].pc = "idle"
     /\ \E u \in {"u1", "ad"}, id \in OrderIdVals, b \in StatusBodies :
          updateOrderStatusBegin("r1", u, id, b) /\ Counted
  \/ /\ rq["r1"].pc = "idle"
     /\ \E u \in Users, id \in OrderIdVals : getOrderByIdBegin("r1", u, id) /\ Counted
  \/ /\ rq["r1"].pc = "idle"
     /\ \E u \in {"u1", "ad"} : getOrdersBegin("r1", u) /\ Counted
  \/ getOrderByIdFind("r1")
  \/ getOrdersFind("r1")
  \/ updateOrderToPaidFind("r1")
  \/ updateOrderToDeliveredFind("r1")
  \/ updateOrderStatusFind("r1")
  \/ orderSaveHooks("r1")
  \/ orderSaveWrite("r1")
  \/ Finish("r1")

SpecOrders == InitOrders /\ [][NextOrders]_vars

(* ---------------------------------------------------------------------- *)
(* SpecCart: addToCart and getCart requests, interleaved                   *)
(* ---------------------------------------------------------------------- *)
CartBodies == [productId : Opt(ProductIds), quantity : Opt({0, 1, MaxQty})]

\* Product B has no image.
InitCart ==
  /\ \E sa \in {1, MaxStock} :
       products = [InitProducts(sa, MaxStock) EXCEPT !["B"].hasImage = FALSE]
  /\ \E c \in {NoCart, Cart(<<CartItem("A", 1000, 1)>>)} :
       carts = [u \in Users |-> IF u = "u1" THEN c ELSE NoCart]
  /\ orders = <<>>
  /\ InitRequests

NextCart ==
  \/ \E p \in Procs :
       /\ rq[p].pc = "idle"
       /\ \E b \in CartBodies : addToCartBegin(p, "u1", b) /\ Counted
  \/ \E p \in Procs :
       /\ rq[p].pc = "idle"
       /\ getCartBegin(p, "u1") /\ Counted
  \/ \E p \in Procs : getOrCreateCartFind(p)
  \/ \E p \in Procs : getOrCreateCartCreate(p)
  \/ \E p \in Procs : getOrCreateCartPopulate(p)
  \/ \E p \in Procs : addItemFind(p)
  \/ \E p \in Procs : cartSave(p)
  \/ \E p \in Procs : addToCartRefetch(p)
  \/ \E p \in Procs : Finish(p)

SpecCart == InitCart /\ [][NextCart]_vars

(* ---------------------------------------------------------------------- *)
(* SpecCartOps: every cart request, one after another                      *)
(* ---------------------------------------------------------------------- *)
QuantityVals == Opt({-1, 0, 1, MaxQty})

NextCartOps ==
  \/ /\ rq["r1"].pc = "idle"
     /\ \E b \in CartBodies : addToCartBegin("r1", "u1", b) /\ Counted
  \/ /\ rq["r1"].pc = "idle"
     /\ getCartBegin("r1", "u1") /\ Counted
  \/ /\ rq["r1"].pc = "idle"
     /\ getCartSummaryBegin("r1", "u1") /\ Counted
  \/ /\ rq["r1"].pc = "idle"
     /\ \E id \in ProductIds, q \in QuantityVals :
          updateCartItemBegin("r1", "u1", id, q) /\ Counted
  \/ /\ rq["r1"].pc = "idle"
     /\ \E id \in ProductIds : removeFromCartBegin("r1", "u1", id) /\ Counted
  \/ /\ rq["r1"].pc = "idle"
     /\ clearCartBegin("r1", "u1") /\ Counted
  \/ getOrCreateCartFind("r1")
  \/ getOrCreateCartCreate("r1")
  \/ getOrCreateCartPopulate("r1")
  \/ addItemFind("r1")
  \/ cartSave("r1")
  \/ addToCartRefetch("r1")
  \/ updateCartItemRefetch("r1")
  \/ removeFromCartRefetch("r1")
  \/ Finish("r1")

SpecCartOps == InitCart /\ [][NextCartOps]_vars

(* ---------------------------------------------------------------------- *)
(* SpecMerge: mergeCarts requests, one after another                       *)
(* ---------------------------------------------------------------------- *)
\* Guest items of the products on sale, with no quantity (the default 1), an
\* invalid one and the largest one; and one of a product that is gone.
GuestItems ==
  [product : {"A", "B"}, quantity : Opt({0, MaxQty})]
    \cup [product : {"X"}, quantity : {Absent}]
GuestLists == {<<>>} \cup {<<a>> : a \in GuestItems}
                \cup {<<a, b>> : a \in GuestItems, b \in GuestItems}
MergeBodies == [guestCart : Opt(GuestLists)]

\* One unit of A, so that the largest quantity of A is refused; no cart yet.
InitMerge ==
  /\ products = InitProducts(1, MaxStock)
  /\ carts = [u \in Users |-> NoCart]
  /\ orders = <<>>
  /\ InitRequests

NextMerge ==
  \/ /\ rq["r1"].pc = "idle"
     /\ \E b \in MergeBodies : mergeCartsBegin("r1", "u1", b) /\ Counted
  \/ getOrCreateCartFind("r1")
  \/ getOrCreateCartCreate("r1")
  \/ getOrCreateCartPopulate("r1")
  \/ mergeCartsAddItem("r1")
  \/ mergeCartsSave("r1")
  \/ mergeCartsRefetch("r1")
  \/ Finish("r1")

SpecMerge == InitMerge /\ [][NextMerge]_vars

(* ---------------------------------------------------------------------- *)
(* SpecStore: every kind of request, one after another, on a store that   *)
(* holds an order                                                          *)
(* ---------------------------------------------------------------------- *)
\* One checkout that passes every check of the controller and one that
\* fails the total check.
StoreCheckoutBodies ==
  [orderItems : {<<[product |-> "A", quantity |-> 1, price |-> 1000]>>},
   itemsPrice : {1000}, taxPrice : {Some(200)}, shippingPrice : {Some(500)},
   totalPrice : [str : BOOLEAN, cents : {1700}]]

StoreStatusBodies ==
  [status : {Some("Processing"), Some("Shipped")}, trackingNumber : Opt({"TN1"}),
   location : {Absent}]

ProductBodies == [stock : Opt({-1, MaxStock, MaxProductStock + 1}), price : Opt({-100, 2000})]

InitStore ==
  /\ \E sa \in {1, MaxStock} : products = InitProducts(sa, MaxStock)
  /\ \E c \in {NoCart, Cart(<<CartItem("A", 1000, 1)>>)} :
       carts = [u \in Users |-> IF u = "u1" THEN c ELSE NoCart]
  /\ \E s \in {"Processing", "Shipped"} :
       orders = <<StoredOrder("u1", <<[product |-> "A", quantity |-> MaxQty, price |-> 1000]>>,
                              s, TRUE)>>
  /\ InitRequests

NextStore ==
  \/ /\ rq["r1"].pc = "idle"
     /\ \E b \in StoreCheckoutBodies : createOrderBegin("r1", "u1", b) /\ Counted
  \/ /\ rq["r1"].pc = "idle"
     /\ updateOrderToPaidBegin("r1", "u1", 1) /\ Counted
  \/ /\ rq["r1"].pc = "idle"
     /\ updateOrderToDeliveredBegin("r1", "ad", 1) /\ Counted
  \/ /\ rq["r1"].pc = "idle"
     /\ \E b \in StoreStatusBodies : updateOrderStatusBegin("r1", "ad", 1, b) /\ Counted
  \/ /\ rq["r1"].pc = "idle"
     /\ \E q \in {1, MaxQty} :
          addToCartBegin("r1", "u1", [productId |-> Some("A"), quantity |-> Some(q)]) /\ Counted
  \/ /\ rq["r1"].pc = "idle"
     /\ \E q \in {0, MaxQty} : updateCartItemBegin("r1", "u1", "A", Some(q)) /\ Counted
  \/ /\ rq["r1"].pc = "idle"
     /\ removeFromCartBegin("r1", "u1", "A") /\ Counted
  \/ /\ rq["r1"].pc = "idle"
     /\ clearCartBegin("r1", "u1") /\ Counted
  \/ /\ rq["r1"].pc = "idle"
     /\ getCartSummaryBegin("r1", "u1") /\ Counted
  \/ /\ rq["r1"].pc = "idle"
     /\ \E u \in {"u1", "ad"}, b \in ProductBodies : updateProductBegin("r1", u, "A", b) /\ Counted
  \/ /\ rq["r1"].pc = "idle"
     /\ \E u \in {"u1", "ad"} : deleteProductBegin("r1", u, "A") /\ Counted
  \/ createOrderFind("r1")
  \/ createOrderSave("r1")
  \/ updateOrderToPaidFind("r1")
  \/ updateOrderToDeliveredFind("r1")
  \/ updateOrderStatusFind("r1")
  \/ orderSaveHooks("r1")
  \/ orderSaveWrite("r1")
  \/ getOrCreateCartFind("r1")
  \/ getOrCreateCartCreate("r1")
  \/ getOrCreateCartPopulate("r1")
  \/ addItemFind("r1")
  \/ cartSave("r1")
  \/ addToCartRefetch("r1")
  \/ updateCartItemRefetch("r1")
  \/ removeFromCartRefetch("r1")
  \/ updateProductFind("r1")
  \/ updateProductUpdate("r1")
  \/ deleteProductFind("r1")
  \/ deleteProductRemove("r1")
  \/ Finish("r1")

SpecStore == InitStore /\ [][NextStore]_vars

(* ---------------------------------------------------------------------- *)
(* Checkout claims                                                         *)
(* ---------------------------------------------------------------------- *)
\* What the claims call the sum of declared unit price x quantity.
RECURSIVE LineTotal(_)
LineTotal(lines) ==
  IF lines = <<>> THEN 0
  ELSE Head(lines).quantity * Head(lines).price + LineTotal(Tail(lines))

\* Quantity a list of order lines asks of product id.
RECURSIVE Ordered(_, _)
Ordered(lines, id) ==
  IF lines = <<>> THEN 0
  ELSE (IF Head(lines).product = id THEN Head(lines).quantity ELSE 0)
       + Ordered(Tail(lines), id)

CheckoutDone(p) == rq[p].op = "createOrder" /\ rq[p].pc = "done"

AllResolve(lines, prods) == \A i \in 1..Len(lines) : prods[lines[i].product].exists
AllInStock(lines, prods) ==
  \A i \in 1..Len(lines) : prods[lines[i].product].stock >= lines[i].quantity
SomeLineShort(lines, prods) ==
  \E i \in 1..Len(lines) :
    /\ prods[lines[i].product].exists
    /\ lines[i].quantity > prods[lines[i].product].stock
\* The product-count check fails: an id does not resolve, or a product is
\* listed on two lines.
CountCheckFails(lines, prods) ==
  \/ ~AllResolve(lines, prods)
  \/ \E i, j \in 1..Len(lines) : i # j /\ lines[i].product = lines[j].product

\* The acceptance conditions of C3, with tax and shipping declared.
Acceptable(b, prods) ==
  /\ b.orderItems # <<>>
  /\ AllResolve(b.orderItems, prods)
  /\ AllInStock(b.orderItems, prods)
  /\ b.itemsPrice = LineTotal(b.orderItems)
  /\ b.taxPrice # Absent /\ b.shippingPrice # Absent
  /\ b.totalPrice.cents = b.itemsPrice + b.taxPrice[1] + b.shippingPrice[1]

StoreAsFound(p) ==
  /\ products = pre[p].products
  /\ carts = pre[p].carts
  /\ orders = pre[p].orders

\* C2: when a product has stock 1 and two checkouts that each order
\* quantity 1 of it run concurrently, exactly one of them succeeds (201) and
\* the other fails with the insufficient-stock error.
C2_ExactlyOneOfTwoSucceeds ==
  LET one == <<[product |-> "A", quantity |-> 1, price |-> 1000]>>
      both == CheckoutDone("r1") /\ CheckoutDone("r2")
  IN (/\ both
      /\ \A p \in Procs :
           /\ rq[p].body.orderItems = one
           /\ rq[p].body.itemsPrice = 1000
           /\ rq[p].body.totalPrice.cents = 2150
           /\ pre[p].products["A"].stock = 1)
     => \E p, q \in Procs :
          /\ p # q
          /\ rq[p].res.code = 201
          /\ rq[q].res.err = "NotEnoughStock"

\* C3: a checkout by an authenticated user whose orderItems are non-empty,
\* whose products all exist with stock >= the ordered quantity, whose
\* itemsPrice is the sum of unit price x quantity and whose totalPrice is
\* itemsPrice + tax + shipping is accepted: answered 201 with the order
\* persisted.
C3_AcceptableCheckoutAccepted ==
  \A p \in Procs :
    (CheckoutDone(p) /\ Acceptable(rq[p].body, pre[p].products))
      => /\ rq[p].res.code = 201
         /\ Len(orders) = Len(pre[p].orders) + 1

\* C4: after a checkout that is to succeed, every product the order
\* references has its stock lowered by the ordered quantity, exactly once,
\* and every other product's stock is as before.
C4_StockLoweredByOrderedQuantity ==
  \A p \in Procs :
    (CheckoutDone(p) /\ Acceptable(rq[p].body, pre[p].products))
      => \A id \in ProductIds :
           products[id].stock =
             pre[p].products[id].stock - Ordered(rq[p].body.orderItems, id)

\* C5: after a checkout that is to succeed, the caller's cart, if one
\* exists, has no items, and the carts of the other users are as before.
C5_CallerCartEmptied ==
  \A p \in Procs :
    (CheckoutDone(p) /\ Acceptable(rq[p].body, pre[p].products))
      => /\ carts[rq[p].user].exists => carts[rq[p].user].items = <<>>
         /\ \A u \in Users \ {rq[p].user} : carts[u] = pre[p].carts[u]

\* C6, as claimed: a checkout whose declared itemsPrice differs from the sum
\* of unit price x quantity is rejected with BadRequest (400), and orders,
\* stock and carts are as before.
C6_MismatchIsBadRequest ==
  \A p \in Procs :
    (CheckoutDone(p) /\ rq[p].body.itemsPrice # LineTotal(rq[p].body.orderItems))
      => rq[p].res.code = 400 /\ StoreAsFound(p)

\* C6, amended: such a checkout is rejected no later than the items-price
\* check -- with BadRequest, or with NotFound (404) exactly when the
\* product-count check fails first -- it never reaches order.save(), and
\* orders, stock and carts are as before.
C6_MismatchIsRejected ==
  \A p \in Procs :
    (rq[p].op = "createOrder"
       /\ rq[p].body.itemsPrice # LineTotal(rq[p].body.orderItems))
      => /\ rq[p].pc # "co_save"
         /\ rq[p].pc = "done" =>
              /\ rq[p].res.err \in
                   {"NoOrderItems", "ProductsNotFound", "NotEnoughStock", "ItemsUpdated"}
              /\ rq[p].res.code = IF rq[p].res.err = "ProductsNotFound" THEN 404 ELSE 400
              /\ rq[p].res.err = "ProductsNotFound" =>
                   CountCheckFails(rq[p].body.orderItems, pre[p].products)
              /\ StoreAsFound(p)

C6_Witness ==
  \E p \in Procs :
    /\ CheckoutDone(p)
    /\ rq[p].body.itemsPrice # LineTotal(rq[p].body.orderItems)
    /\ rq[p].res = Res(400, "ItemsUpdated")
    /\ carts[rq[p].user].items # <<>>

\* C7, as claimed: a checkout in which an ordered quantity exceeds the
\* current stock of the product it references is rejected with BadRequest.
C7_ShortStockIsBadRequest ==
  \A p \in Procs :
    (CheckoutDone(p) /\ SomeLineShort(rq[p].body.orderItems, pre[p].products))
      => rq[p].res.code = 400

\* C7, amended: such a checkout is rejected no later than the stock check:
\* with the BadRequest "not enough stock", or with NotFound exactly when the
\* product-count check fails first.
C7_ShortStockIsRejected ==
  \A p \in Procs :
    (rq[p].op = "createOrder"
       /\ SomeLineShort(rq[p].body.orderItems, pre[p].products))
      => /\ rq[p].pc # "co_save"
         /\ rq[p].pc = "done" =>
              IF CountCheckFails(rq[p].body.orderItems, pre[p].products)
                THEN rq[p].res = Res(404, "ProductsNotFound")
                ELSE rq[p].res = Res(400, "NotEnoughStock")

C7_Witness ==
  \E p \in Procs :
    /\ CheckoutDone(p)
    /\ Len(rq[p].body.orderItems) = 2
    /\ ~SomeLineShort(<<rq[p].body.orderItems[1]>>, pre[p].products)
    /\ SomeLineShort(<<rq[p].body.orderItems[2]>>, pre[p].products)
    /\ rq[p].res = Res(400, "NotEnoughStock")

\* The five validation failures of createOrder.
ValidationFailures ==
  {"NoOrderItems", "ProductsNotFound", "NotEnoughStock", "ItemsUpdated", "TotalMismatch"}

\* C8: a checkout that fails validation (empty orderItems, unresolved
\* product, insufficient stock, itemsPrice or totalPrice mismatch) is found
\* out before order.save() is reached, and leaves the orders, every
\* product's stock and every cart as they were before the request.
C8_ValidationFailureLeavesNoTrace ==
  \A p \in Procs :
    rq[p].op = "createOrder" =>
      /\ rq[p].pc = "co_save" =>
           /\ rq[p].body.orderItems # <<>>
           /\ ~CountCheckFails(rq[p].body.orderItems, pre[p].products)
           /\ AllInStock(rq[p].body.orderItems, pre[p].products)
           /\ rq[p].body.itemsPrice = LineTotal(rq[p].body.orderItems)
           /\ rq[p].body.totalPrice.cents =
                rq[p].body.itemsPrice + rq[p].loc.doc.taxPrice
                  + rq[p].loc.doc.shippingPrice
      /\ (rq[p].pc = "done" /\ rq[p].res.err \in ValidationFailures) => StoreAsFound(p)

C8_Witness ==
  \E p \in Procs :
    /\ CheckoutDone(p)
    /\ rq[p].res = Res(400, "TotalMismatch")
    /\ pre[p].carts[rq[p].user].items # <<>>
    /\ StoreAsFound(p)
(* ---------------------------------------------------------------------- *)
(* Stock and tracking claims                                               *)
(* ---------------------------------------------------------------------- *)
\* C1: in every reachable state the stock of every product is at least 0.
C1_StockNeverNegative ==
  \A id \in ProductIds : products[id].exists => products[id].stock >= 0

StatusOps == {"updateOrderToPaid", "updateOrderToDelivered", "updateOrderStatus"}

\* C9: every successful status operation on an order leaves trackingUpdates
\* equal to exactly one new entry followed by the previous list, and no step
\* changes the list in any other way.
C9_EachOperationPrependsOneEntry ==
  [][/\ \A i \in 1..Len(orders) :
          orders'[i].trackingUpdates # orders[i].trackingUpdates
            => /\ Len(orders'[i].trackingUpdates) = Len(orders[i].trackingUpdates) + 1
               /\ Tail(orders'[i].trackingUpdates) = orders[i].trackingUpdates
      /\ \A p \in Procs :
          (/\ rq[p].op \in StatusOps
           /\ rq[p].pc # "done"
           /\ rq'[p].pc = "done"
           /\ rq'[p].res.code = 200)
            => LET k == rq[p].loc.id
               IN /\ Len(orders'[k].trackingUpdates) = Len(orders[k].trackingUpdates) + 1
                  /\ Tail(orders'[k].trackingUpdates) = orders[k].trackingUpdates]_vars

(* ---------------------------------------------------------------------- *)
(* Cart claims                                                             *)
(* ---------------------------------------------------------------------- *)
NoDuplicateLines(c) ==
  \A i, j \in 1..Len(c.items) : i # j => c.items[i].product # c.items[j].product

\* What merging quantity q of product pid into a list of lines means.
MergedInto(items, pid, price, q) ==
  IF \E i \in 1..Len(items) : items[i].product = pid
    THEN [i \in 1..Len(items) |->
            IF items[i].product = pid
              THEN [items[i] EXCEPT !.quantity = @ + q] ELSE items[i]]
    ELSE Append(items, CartItem(pid, price, q))

\* C10: a cart never holds two lines of one product, and an addToCart that
\* succeeded (the only write to the cart since the request arrived) leaves
\* the cart as it was with the quantity merged into the product's line.
C10_SameProductMergesIntoOneLine ==
  /\ \A u \in Users : NoDuplicateLines(carts[u])
  /\ \A p \in Procs :
       (/\ rq[p].op = "addToCart"
        /\ rq[p].pc = "done"
        /\ rq[p].res.code = 200
        /\ carts[rq[p].user].v = pre[p].carts[rq[p].user].v + 1)
         => carts[rq[p].user].items =
              MergedInto(pre[p].carts[rq[p].user].items,
                         rq[p].body.productId[1],
                         products[rq[p].body.productId[1]].price,
                         IF rq[p].body.quantity = Absent THEN 1
                           ELSE rq[p].body.quantity[1])

RECURSIVE SumOfLineValues(_, _)
SumOfLineValues(items, n) ==
  IF n = 0 THEN 0
  ELSE items[n].price * items[n].quantity + SumOfLineValues(items, n - 1)
RECURSIVE SumOfQuantities(_, _)
SumOfQuantities(items, n) ==
  IF n = 0 THEN 0 ELSE items[n].quantity + SumOfQuantities(items, n - 1)

SummaryAnswered(p) ==
  rq[p].op = "getCartSummary" /\ rq[p].pc = "done" /\ rq[p].res.code = 200

\* C11: the summary a cart request returns carries, as totalPrice, the sum of
\* stored price x quantity over the lines of the persisted cart and, as
\* totalItems, the sum of their quantities, whatever mutations came before.
C11_SummaryMatchesCart ==
  \A p \in Procs :
    SummaryAnswered(p) =>
      LET items == carts[rq[p].user].items
      IN /\ rq[p].loc.summary.totalPrice = SumOfLineValues(items, Len(items))
         /\ rq[p].loc.summary.totalItems = SumOfQuantities(items, Len(items))
         /\ rq[p].loc.summary.items = Len(items)

C11_Witness ==
  \E p \in Procs :
    /\ SummaryAnswered(p)
    /\ Len(carts[rq[p].user].items) >= 2
    /\ rq[p].loc.summary.totalItems > Len(carts[rq[p].user].items)

ZeroUpdate(p) ==
  /\ rq[p].op = "updateCartItem"
  /\ rq[p].body.quantity # Absent
  /\ rq[p].body.quantity[1] < 1
RemoveLike(p) == ZeroUpdate(p) \/ rq[p].op = "removeFromCart"
InCart(c, pid) == \E i \in 1..Len(c.items) : c.items[i].product = pid

\* The lines removeItem leaves persisted, given the cart document it ran on.
ItemsRemoveItemLeaves(cart, pid) ==
  LET change == RemoveItemChange(cart, pid)
  IN IF change.kind = "items" THEN change.items ELSE Depopulated(cart.items)

Answered(p, ops) == rq[p].op \in ops /\ rq[p].pc = "done"
OwnerOrAdmin(o, u) == u = o.user \/ Role(u) = "admin"

\* C13: getOrderById and markPaid on an existing order answer 401 and leave
\* the orders as they were when the caller is neither the owner nor an
\* admin, and succeed for the owner and for an admin.
C13_OwnerOrAdminOnly ==
  \A p \in Procs :
    (Answered(p, {"getOrderById", "updateOrderToPaid"}) /\ FindOrder(rq[p].loc.id))
      => IF OwnerOrAdmin(pre[p].orders[rq[p].loc.id], rq[p].user)
           THEN rq[p].res.code = 200
           ELSE rq[p].res.code = 401 /\ orders = pre[p].orders

C13_Witness ==
  /\ Answered("r1", {"updateOrderToPaid"})
  /\ rq["r1"].user = "u2"
  /\ rq["r1"].res.code = 401
  /\ FindOrder(rq["r1"].loc.id)

\* C14: markDelivered, setStatus and the all-orders listing answer 403 to a
\* caller who is not an admin, and change no order.
C14_AdminOnlyIsForbidden ==
  \A p \in Procs :
    (/\ Answered(p, {"updateOrderToDelivered", "updateOrderStatus", "getOrders"})
     /\ Role(rq[p].user) # "admin")
      => rq[p].res.code = 403 /\ orders = pre[p].orders

C14_Witness ==
  /\ Answered("r1", {"updateOrderStatus"})
  /\ rq["r1"].user = "u1"
  /\ rq["r1"].body.status # Absent
  /\ rq["r1"].res.code = 403

(* ---------------------------------------------------------------------- *)
(* Payment, delivery and new-order claims                                  *)
(* ---------------------------------------------------------------------- *)
\* C15: after a successful markPaid the persisted order is paid, has paidAt
\* set and carries the payment information of the confirmation.
C15_PaidOrderCarriesPaymentInfo ==
  \A p \in Procs :
    (Answered(p, {"updateOrderToPaid"}) /\ rq[p].res.code = 200)
      => /\ orders[rq[p].loc.id].isPaid
         /\ orders[rq[p].loc.id].paidAt
         /\ orders[rq[p].loc.id].hasPaymentInfo

\* C16: markDelivered by an admin on an existing order is answered 200 and
\* leaves the order Delivered, with the delivery recorded.
C16_AdminDeliversAnyOrder ==
  \A p \in Procs :
    (/\ Answered(p, {"updateOrderToDelivered"})
     /\ Role(rq[p].user) = "admin"
     /\ FindOrder(rq[p].loc.id))
      => /\ rq[p].res.code = 200
         /\ orders[rq[p].loc.id].orderStatus = "Delivered"
         /\ orders[rq[p].loc.id].delivered

\* C17: once a checkout that is to succeed has been answered, the order it
\* created is Processing, unpaid, and has exactly one tracking entry, the
\* order-placed one.
C17_NewOrderIsProcessingUnpaidOneEntry ==
  \A p \in Procs :
    (CheckoutDone(p) /\ Acceptable(rq[p].body, pre[p].products))
      => \E i \in 1..Len(orders) :
           /\ i > Len(pre[p].orders)
           /\ orders[i].user = rq[p].user
           /\ orders[i].orderStatus = "Processing"
           /\ ~orders[i].isPaid
           /\ Len(orders[i].trackingUpdates) = 1
           /\ orders[i].trackingUpdates[1].status = "Order Placed"

\* The order numbers the claim expects for the first orders.
ExpectedOrderNumber(count) ==
  CASE count = 0 -> "ORD-000001"
    [] count = 1 -> "ORD-000002"
    [] count = 2 -> "ORD-000003"
    [] count = 3 -> "ORD-000004"
    [] OTHER -> "ORD-000005"

\* C18: the order a checkout creates is numbered "ORD-" followed by the
\* number of orders persisted before it plus one, padded to six digits, and
\* no two persisted orders ever share a number.
C18_OrderNumbersCountedAndUnique ==
  /\ \A i, j \in 1..Len(orders) :
       i # j => orders[i].orderNumber # orders[j].orderNumber
  /\ \A p \in Procs :
       (CheckoutDone(p) /\ Acceptable(rq[p].body, pre[p].products))
         => \E i \in 1..Len(orders) :
              /\ orders[i].user = rq[p].user
              /\ orders[i].orderNumber = Some(ExpectedOrderNumber(i - 1))

(* ---------------------------------------------------------------------- *)
(* getOrCreateCart                                                         *)
(* ---------------------------------------------------------------------- *)
\* C20: every getOrCreateCart call returns the user's cart, also when two
\* first-time accesses of one user interleave, and a call that only reads
\* leaves the items of the cart as they were.
C20_GetOrCreateCartReturnsTheCart ==
  \A p \in Procs :
    /\ (rq[p].op \in {"getCart", "addToCart"} /\ rq[p].pc = "done")
         => rq[p].res.err # "DuplicateKey"
    /\ Answered(p, {"getCart"})
         => /\ rq[p].res.code = 200
            /\ carts[rq[p].user].exists
            /\ (rq["r1"].op = "getCart" /\ rq["r2"].op \in {"getCart", "idle"})
                 => carts[rq[p].user].items = pre[p].carts[rq[p].user].items

(* ---------------------------------------------------------------------- *)
(* Frame of a stored order                                                 *)
(* ---------------------------------------------------------------------- *)
Frozen(o) ==
  <<o.orderItems, o.itemsPrice, o.taxPrice, o.shippingPrice, o.totalPrice,
    o.user, o.orderNumber>>

\* C19: no step of any request changes the order lines, the four prices,
\* the owner or the order number of an order that is stored, and no stored
\* order disappears.
C19_StoredOrderIsFrozen ==
  [][/\ Len(orders') >= Len(orders)
     /\ \A i \in 1..Len(orders) : Frozen(orders'[i]) = Frozen(orders[i])]_vars

\* The order has been paid and moved on, and its product re-priced.
C19_Witness ==
  /\ orders[1].isPaid
  /\ Len(orders[1].trackingUpdates) >= 3
  /\ products["A"].price # orders[1].orderItems[1].price

(* ---------------------------------------------------------------------- *)
(* Inventory                                                               *)
(* ---------------------------------------------------------------------- *)
StockOf(prods) == [id \in ProductIds |-> prods[id].stock]

\* C21: while a status request (pay, deliver, set status) is running and
\* once it is answered, with any status and any answer, every product has
\* the stock the request found.
C21_StatusOperationsKeepStock ==
  \A p \in Procs :
    (rq[p].op \in StatusOps /\ rq[p].pc # "idle")
      => StockOf(products) = StockOf(pre[p].products)

RECURSIVE QuantityInOrders(_, _)
QuantityInOrders(ords, id) ==
  IF ords = <<>> THEN 0
  ELSE Ordered(Head(ords).orderItems, id) + QuantityInOrders(Tail(ords), id)

\* C22: with no product edits, what has left the shelf of a product is what
\* the persisted orders hold of it: no step changes the sum of a product's
\* stock and its quantity over the persisted orders.
C22_StockPlusOrderedIsConstant ==
  [][\A id \in ProductIds :
       products'[id].stock + QuantityInOrders(orders', id)
         = products[id].stock + QuantityInOrders(orders, id)]_vars

(* ---------------------------------------------------------------------- *)
(* Status transitions                                                      *)
(* ---------------------------------------------------------------------- *)
OrderStatusSet == {"Processing", "Shipped", "Delivered", "Cancelled", "Returned"}

\* C23: setStatus(t) by an admin on an existing order, for any t of the
\* order status set and whatever the current status, is answered 200 and
\* leaves orderStatus = t, with trackingNumber the supplied one or else the
\* one the request found; and every stored order's status is in the set.
C23_AnyTransitionSucceeds ==
  /\ \A i \in 1..Len(orders) : orders[i].orderStatus \in OrderStatusSet
  /\ \A p \in Procs :
       (/\ Answered(p, {"updateOrderStatus"})
        /\ Role(rq[p].user) = "admin"
        /\ rq[p].body.status # Absent
        /\ rq[p].body.status[1] \in OrderStatusSet
        /\ rq[p].loc.id \in 1..Len(pre[p].orders))
         => /\ rq[p].res.code = 200
            /\ orders[rq[p].loc.id].orderStatus = rq[p].body.status[1]
            /\ orders[rq[p].loc.id].trackingNumber =
                 IF rq[p].body.trackingNumber # Absent
                   THEN rq[p].body.trackingNumber[1]
                   ELSE pre[p].orders[rq[p].loc.id].trackingNumber

(* ---------------------------------------------------------------------- *)
(* Tax and shipping of a checkout                                          *)
(* ---------------------------------------------------------------------- *)
DeclaredOrElse(o, v) == IF o # Absent THEN o[1] ELSE v

\* C24: the order document a checkout builds after its checks carries the
\* declared taxPrice when one is declared, a declared 0 included, and 15% of
\* itemsPrice rounded to cents otherwise; and the declared shippingPrice when
\* one is declared, a declared 0 included, and otherwise 0 above 100.00 and
\* 10.00 up to it.
C24_DeclaredTaxAndShippingAreUsed ==
  \A p \in Procs :
    (rq[p].op = "createOrder" /\ rq[p].pc = "co_save")
      => LET b == rq[p].body
         IN /\ rq[p].loc.doc.taxPrice =
                 DeclaredOrElse(b.taxPrice, (15 * b.itemsPrice + 50) \div 100)
            /\ rq[p].loc.doc.shippingPrice =
                 DeclaredOrElse(b.shippingPrice,
                                IF b.itemsPrice > 10000 THEN 0 ELSE 1000)

(* ---------------------------------------------------------------------- *)
(* NotFound at checkout                                                    *)
(* ---------------------------------------------------------------------- *)
\* C25: a checkout is answered NotFound (404) exactly when one of its
\* product ids does not resolve; a request whose ids all resolve, also one
\* with the same product on two lines, is not answered NotFound.
C25_NotFoundOnlyWhenUnresolved ==
  \A p \in Procs :
    (CheckoutDone(p) /\ rq[p].body.orderItems # <<>>)
      => (rq[p].res.code = 404 <=> ~AllResolve(rq[p].body.orderItems, pre[p].products))

(* ---------------------------------------------------------------------- *)
(* Guest-cart merge                                                        *)
(* ---------------------------------------------------------------------- *)
\* A guest item whose addItem succeeds when it is the only one merged.
AddItemWouldSucceed(item, prods) ==
  LET q == IF item.quantity = Absent THEN 1 ELSE item.quantity[1]
  IN /\ prods[item.product].exists
     /\ q >= 1
     /\ prods[item.product].stock >= q
     /\ prods[item.product].hasImage

\* C26: a merge of a guest item list is answered 200, and every guest item
\* whose addItem would succeed on its own has its product in the persisted
\* cart afterwards, whatever the items before and after it do.
C26_MergeKeepsEveryGoodItem ==
  \A p \in Procs :
    (Answered(p, {"mergeCarts"}) /\ rq[p].body.guestCart # Absent)
      => /\ rq[p].res.code = 200
         /\ \A i \in 1..Len(rq[p].body.guestCart[1]) :
              AddItemWouldSucceed(rq[p].body.guestCart[1][i], pre[p].products)
                => InCart(carts[rq[p].user], rq[p].body.guestCart[1][i].product)

(* ---------------------------------------------------------------------- *)
(* Stored line price                                                       *)
(* ---------------------------------------------------------------------- *)
SameLine(a, b) == a.product = b.product /\ a.price = b.price

\* C27: no step changes the price of a stored cart line: a cart that does
\* not shrink keeps product and price of every line it had, and a line it
\* gains carries the price its product has at that moment; a cart that
\* shrinks holds only lines it had.  The summary's totalPrice is the sum of
\* stored price x quantity, also when the product's price has moved.
C27_StoredLinePriceIsKept ==
  [][/\ \A u \in Users :
          LET old == carts[u].items
              new == carts'[u].items
          IN IF Len(new) >= Len(old)
               THEN \A i \in 1..Len(new) :
                      IF i <= Len(old) THEN SameLine(new[i], old[i])
                      ELSE new[i].price = products[new[i].product].price
               ELSE \A i \in 1..Len(new) : \E j \in 1..Len(old) : SameLine(new[i], old[j])
     /\ \A p \in Procs :
          (rq'[p].op = "getCartSummary" /\ rq'[p].pc = "done" /\ rq'[p].res.code = 200)
            => rq'[p].loc.summary.totalPrice =
                 SumOfLineValues(carts'[rq'[p].user].items,
                                 Len(carts'[rq'[p].user].items))]_vars

\* A summary is answered for a cart that holds a line of A at the old price
\* and, after a later addItem, one at the new price.
C27_Witness ==
  \E p \in Procs :
    /\ SummaryAnswered(p)
    /\ \E i, j \in 1..Len(carts[rq[p].user].items) :
         /\ carts[rq[p].user].items[i].product = carts[rq[p].user].items[j].product
         /\ carts[rq[p].user].items[i].price # carts[rq[p].user].items[j].price

(* ---------------------------------------------------------------------- *)
(* addItem failures                                                        *)
(* ---------------------------------------------------------------------- *)
RequestedQuantity(b) == IF b.quantity = Absent THEN 1 ELSE b.quantity[1]

\* C28: an addToCart request for a product that does not exist is answered
\* NotFound (404); one for an existing product whose stock is below the
\* requested quantity, whatever the cart already holds, is answered
\* InsufficientStock, a BadRequest (400); in both cases the lines of the
\* persisted cart are the ones the request found.
C28_AddItemNotFoundOrInsufficientStock ==
  \A p \in Procs :
    (Answered(p, {"addToCart"}) /\ rq[p].body.productId # Absent)
      => LET b == rq[p].body
             product == pre[p].products[b.productId[1]]
             unchanged == carts[rq[p].user].items = pre[p].carts[rq[p].user].items
         IN /\ ~product.exists => (rq[p].res.code = 404 /\ unchanged)
            /\ (product.exists /\ product.stock < RequestedQuantity(b))
                 => (rq[p].res.code = 400 /\ unchanged)

(* ---------------------------------------------------------------------- *)
(* Interleaved cart mutations                                              *)
(* ---------------------------------------------------------------------- *)
\* Two addToCart requests for the same product, already in the cart, have
\* both been answered 200 after reading the same version of the cart.
BothAddedOnTheSameRead(p, q) ==
  /\ p # q
  /\ Answered(p, {"addToCart"}) /\ Answered(q, {"addToCart"})
  /\ rq[p].res.code = 200 /\ rq[q].res.code = 200
  /\ rq[p].user = rq[q].user
  /\ rq[p].body.productId = rq[q].body.productId
  /\ pre[p].carts = pre[q].carts
  /\ InCart(pre[p].carts[rq[p].user], rq[p].body.productId[1])
  /\ rq[p].loc.cart.v = rq[q].loc.cart.v

C30_StockWithinRange ==
  \A id \in ProductIds :
    products[id].exists => products[id].stock \in 0..10000

====
